---- MODULE Spec2Model ----
(***************************************************************************)
(* Model of the job-application automation agent:                          *)
(*   job_tracker.py     the application ledger (JobTracker)                *)
(*   profile_matcher.py the relevance scoring and ranking (ProfileMatcher) *)
(*   linkedin_agent.py  one source's run (LinkedInAgent.search_and_apply)  *)
(*   app.py             the session orchestrator (main)                    *)
(*   email_checker.py   the notification pass (EmailChecker)               *)
(*                                                                         *)
(* Text is modelled as a sequence of one-character strings, so that        *)
(* str.lower(), slicing, concatenation and the "in" substring test are     *)
(* computed character by character as Python computes them.                *)
(***************************************************************************)
EXTENDS Integers, Sequences, FiniteSets, TLC

VARIABLES
    \* ---- JobTracker (job_tracker.py) ----
    workbook,      \* "none" before __init__, "open" once self.workbook is set
    worksheet,     \* the data rows of self.worksheet (row 1, the header, is implicit)
    disk,          \* the rows of the file at excel_path, or NoFile
    now,           \* the wall clock, in seconds
    \* ---- observation of the ledger's callers ----
    call,          \* the last ledger operation called, with its arguments
    ret,           \* what that operation returned
    origin,        \* per data row: "loaded" from the file, "committed" (add returned
                   \* True in this process) or "failed" (add returned False)
    closeCalls,    \* number of calls of JobTracker.close
    nUpdates,      \* number of update_job_status calls made (bounded)
    \* ---- ProfileMatcher run on one posting (profile_matcher.py) ----
    config,        \* the configuration the matcher is built from
    posting,       \* the job dictionary given to match_job
    mres,          \* what match_job returned, NotEvaluated before the call
    \* ---- EmailChecker._classify_email run on one message (email_checker.py) ----
    email,         \* the email dictionary given to _classify_email
    update_type,   \* what _classify_email returned, "unset" before the call
    \* ---- ProfileMatcher.filter_and_rank run on one list (profile_matcher.py) ----
    ranking,       \* the list and the limit given, the number of calls made, what
                   \* the first call returned and what the list given holds after it,
                   \* and what the second call, made on the list the first returned,
                   \* returned
    \* ---- LinkedInAgent (linkedin_agent.py) ----
    agent,             \* "none" before LinkedInAgent.__init__, then "ready"
    max_applications,  \* self.max_applications
    applications_count,\* self.applications_count
    rpc,               \* where search_and_apply stands
    jobs,              \* the job dictionaries _search_jobs returned
    matched_jobs,      \* the list filter_and_rank returned, as positions in jobs
    pos,               \* the position in matched_jobs of the job in hand
    results,           \* the results dictionary of the run
    success,           \* what the last _apply_to_job of the run returned (line 108)
    surface,           \* the last DroidAgent run awaited, and how it ended
    submitCalls,       \* number of _apply_to_job invocations of the run
    runs,              \* number of search_and_apply calls made
    \* ---- main (app.py) ----
    pc,                \* the statement main stands at; "idle" when main is not run
    all_results,       \* the all_results dictionary of line 123
    report,            \* <<>> until print_summary ran, then <<what it was given>>
    failure            \* the stage whose exception or interrupt left the normal flow

matchVars == <<config, posting, mres, email, update_type, ranking>>

runnerVars == <<agent, max_applications, applications_count, rpc, jobs, matched_jobs, pos,
                results, success, surface, submitCalls, runs>>

ledgerVars == <<workbook, worksheet, disk, now, call, ret, origin, closeCalls, nUpdates>>

mainVars == <<pc, all_results, report, failure>>

vars == <<ledgerVars, matchVars, runnerVars, mainVars>>

-----------------------------------------------------------------------------
(* Bounds *)
MaxRows == 2       \* most data rows the worksheet holds
MaxClock == 2      \* last second of the clock
MaxUpdates == 1    \* most update_job_status calls
MaxCloses == 2     \* most close calls
MaxJobs == 2       \* most postings one discovery returns
MaxBudget == 2     \* largest max_applications_per_session
MaxRuns == 2       \* most search_and_apply calls on one agent

-----------------------------------------------------------------------------
(* Text *)
UpperLetters == <<"A","B","C","D","E","F","G","H","I","J","K","L","M",
                  "N","O","P","Q","R","S","T","U","V","W","X","Y","Z">>
LowerLetters == <<"a","b","c","d","e","f","g","h","i","j","k","l","m",
                  "n","o","p","q","r","s","t","u","v","w","x","y","z">>

LowerChar(c) ==
    IF \E i \in 1..26 : UpperLetters[i] = c
    THEN LowerLetters[CHOOSE i \in 1..26 : UpperLetters[i] = c]
    ELSE c

UpperChar(c) ==
    IF \E i \in 1..26 : LowerLetters[i] = c
    THEN UpperLetters[CHOOSE i \in 1..26 : LowerLetters[i] = c]
    ELSE c

\* str.lower()
Lower(s) == [i \in 1..Len(s) |-> LowerChar(s[i])]

\* str.upper()
Upper(s) == [i \in 1..Len(s) |-> UpperChar(s[i])]

\* s[:n]
Take(s, n) == SubSeq(s, 1, IF Len(s) < n THEN Len(s) ELSE n)

\* sub in s
Contains(sub, s) ==
    \E i \in 0..(Len(s) - Len(sub)) : SubSeq(s, i + 1, i + Len(sub)) = sub

\* s.replace(c, with) for a one-character c; with is a text
RECURSIVE Replace(_, _, _)
Replace(s, c, with) ==
    IF s = <<>> THEN <<>>
    ELSE (IF Head(s) = c THEN with ELSE <<Head(s)>>) \o Replace(Tail(s), c, with)

\* dict.get(key, default)
Get(d, k, default) == IF k \in DOMAIN d THEN d[k] ELSE default

Digits == <<"0","1","2","3","4","5","6","7","8","9">>
Digit(n) == Digits[n + 1]

\* self.platform_name of LinkedInAgent
S_LinkedIn == <<"L","i","n","k","e","d","I","n">>

\* the text literals of job_tracker.py
TrackerText ==
    [ Unknown |-> <<"U","n","k","n","o","w","n">>,
      UNK |-> <<"U","N","K">>,
      Applied |-> <<"A","p","p","l","i","e","d">>,
      applied |-> <<"a","p","p","l","i","e","d">>,
      interview |-> <<"i","n","t","e","r","v","i","e","w">>,
      shortlist |-> <<"s","h","o","r","t","l","i","s","t">>,
      reject |-> <<"r","e","j","e","c","t">>,
      years_0_1 |-> <<"0","-","1"," ","y","e","a","r","s">>,
      Internship |-> <<"I","n","t","e","r","n","s","h","i","p">>,
      NotSpecified |-> <<"N","o","t"," ","s","p","e","c","i","f","i","e","d">>,
      Automated |-> <<"A","u","t","o","m","a","t","e","d">> ]

\* the text ""
Empty == <<>>

\* the texts of the inputs: what callers, configurations and postings hold
Sample ==
    [ Ab |-> <<"A","b">>,
      AB |-> <<"A","B">>,
      ab |-> <<"a","b">>,
      c |-> <<"c">>,
      Dev |-> <<"D","e","v">>,
      DEV |-> <<"D","E","V">>,
      linkedin |-> <<"l","i","n","k","e","d","i","n">>,
      Interview |-> <<"I","n","t","e","r","v","i","e","w">>,
      Shortlisted |-> <<"S","h","o","r","t","l","i","s","t","e","d">>,
      Rejected |-> <<"R","e","j","e","c","t","e","d">>,
      Offer |-> <<"O","f","f","e","r">>,
      NotApplied |-> <<"r","e","j","e","c","t",":"," ","a","p","p","l","i","e","d">>,
      XYZ999 |-> <<"X","Y","Z","-","9","9","9">>,
      note |-> <<"o","k">>,
      called |-> <<"c","a","l","l","e","d">>,
      indented |-> <<" ","x">>,
      SoftwareDeveloperIntern |->
         <<"S","o","f","t","w","a","r","e"," ","D","e","v","e","l","o","p","e","r"," ",
           "I","n","t","e","r","n">>,
      SeniorSoftwareDeveloperIntern |->
         <<"S","e","n","i","o","r"," ","S","o","f","t","w","a","r","e"," ","D","e","v",
           "e","l","o","p","e","r"," ","I","n","t","e","r","n">>,
      WebDeveloper |-> <<"W","e","b"," ","D","e","v","e","l","o","p","e","r">>,
      DataAnalyst |-> <<"D","a","t","a"," ","A","n","a","l","y","s","t">>,
      PythonReact |->
         <<"W","o","r","k"," ","w","i","t","h"," ","p","y","t","h","o","n"," ","a","n",
           "d"," ","r","e","a","c","t">>,
      SeniorTeam |->
         <<"J","o","i","n"," ","o","u","r"," ","S","E","N","I","O","R"," ","t","e","a",
           "m",","," ","s","q","l"," ","a","n","d"," ","p","y","t","h","o","n">>,
      Remote |-> <<"R","e","m","o","t","e">>,
      Pune |-> <<"P","u","n","e">>,
      Fresher |-> <<"F","r","e","s","h","e","r">>,
      years_0_1 |-> <<"0","-","1"," ","y","e","a","r","s">>,
      years_3_to_5 |-> <<"3"," ","t","o"," ","5"," ","y","e","a","r","s">>,
      years_10 |-> <<"1","0"," ","y","e","a","r","s">>,
      years_5 |->
        <<"5"," ","y","e","a","r","s"," ","e","x","p","e","r","i","e","n","c","e">>,
      software_developer_intern |->
         <<"s","o","f","t","w","a","r","e"," ","d","e","v","e","l","o","p","e","r"," ",
           "i","n","t","e","r","n">>,
      data_analyst |-> <<"d","a","t","a"," ","a","n","a","l","y","s","t">>,
      python |-> <<"p","y","t","h","o","n">>,
      react |-> <<"r","e","a","c","t">>,
      Python |-> <<"P","y","t","h","o","n">>,
      sql |-> <<"s","q","l">>,
      Senior |-> <<"S","e","n","i","o","r">>,
      remote |-> <<"r","e","m","o","t","e">>,
      pune |-> <<"p","u","n","e">>,
      Python_intern |-> <<"P","y","t","h","o","n"," ","i","n","t","e","r","n">>,
      SeniorDev |-> <<"S","e","n","i","o","r"," ","D","e","v">>,
      dev |-> <<"d","e","v">>,
      senior |-> <<"s","e","n","i","o","r">>,
      data_jobs_xlsx |-> <<"d","a","t","a","/","j","o","b","s",".","x","l","s","x">>,
      gmail |-> <<"g","m","a","i","l">> ]

-----------------------------------------------------------------------------
(* The clock: datetime.now().strftime(...) *)

\* strftime("%Y-%m-%d"): the date is the leading field of the timestamp
FmtDate(t) == <<Digit(t \div 10)>>

\* strftime("%Y-%m-%d %H:%M:%S"): date, a space, the time to the second
FmtTimestamp(t) == FmtDate(t) \o <<" ">> \o <<Digit(t % 10)>>

-----------------------------------------------------------------------------
(* JobTracker *)
NoFile == "NoFile"

\* the application id of job_tracker.py line 99
AppId(job_data, t) ==
    Upper(Take(Get(job_data, "platform", TrackerText.UNK), 3)) \o <<"-">>
      \o Replace(Replace(Replace(FmtTimestamp(t), " ", <<"T">>), ":", Empty), "-", Empty)

\* row_data of add_job_application, lines 102-118
RowData(job_data, t) ==
    [ app_id             |-> AppId(job_data, t),
      date_applied       |-> FmtTimestamp(t),
      platform           |-> Get(job_data, "platform", TrackerText.Unknown),
      company            |-> Get(job_data, "company", TrackerText.Unknown),
      job_title          |-> Get(job_data, "job_title", TrackerText.Unknown),
      location           |-> Get(job_data, "location", TrackerText.Unknown),
      job_url            |-> Get(job_data, "job_url", Empty),
      status             |-> Get(job_data, "status", TrackerText.Applied),
      experience         |-> Get(job_data, "experience", TrackerText.years_0_1),
      job_type           |-> Get(job_data, "job_type", TrackerText.Internship),
      salary             |-> Get(job_data, "salary", TrackerText.NotSpecified),
      skills             |-> Get(job_data, "skills", Empty),
      application_method |-> Get(job_data, "application_method", TrackerText.Automated),
      last_updated       |-> FmtTimestamp(t),
      notes              |-> Get(job_data, "notes", Empty) ]

\* check_already_applied comparing the arguments as given, without .lower()
check_already_applied_args_as_given(ws, company, job_title, platform) ==
    \E row \in 1..Len(ws) :
        /\ Lower(ws[row].company) = company
        /\ Lower(ws[row].job_title) = job_title
        /\ Lower(ws[row].platform) = platform

\* check_already_applied comparing the texts without .lower() on either side
check_already_applied_exact_case(ws, company, job_title, platform) ==
    \E row \in 1..Len(ws) :
        /\ ws[row].company = company
        /\ ws[row].job_title = job_title
        /\ ws[row].platform = platform

\* the loop of check_already_applied, lines 185-195
check_already_applied(ws, company, job_title, platform) ==
    \E row \in 1..Len(ws) :
        /\ Lower(ws[row].company) = Lower(company)
        /\ Lower(ws[row].job_title) = Lower(job_title)
        /\ Lower(ws[row].platform) = Lower(platform)

\* the class get_application_stats counts a status in, lines 219-228
StatusClass(status) ==
    IF Contains(TrackerText.applied, Lower(status)) THEN "applied"
    ELSE IF \/ Contains(TrackerText.interview, Lower(status))
            \/ Contains(TrackerText.shortlist, Lower(status))
         THEN "interview"
    ELSE IF Contains(TrackerText.reject, Lower(status)) THEN "rejected"
    ELSE "pending"

\* get_application_stats, lines 208-230: one pass over the rows
RECURSIVE StatsFrom(_, _)
StatsFrom(ws, stats) ==
    IF ws = <<>> THEN stats
    ELSE LET cls == StatusClass(Head(ws).status)
             s1 == [stats EXCEPT !.total = @ + 1]
         IN StatsFrom(Tail(ws), [s1 EXCEPT ![cls] = @ + 1])

get_application_stats(ws) ==
    StatsFrom(ws, [total |-> 0, applied |-> 0, interview |-> 0, rejected |-> 0, pending |-> 0])

\* a search that is left with the last row in hand when no row carries app_id
FindRow_last_in_hand(ws, app_id) ==
    IF \E row \in 1..Len(ws) : ws[row].app_id = app_id
    THEN CHOOSE row \in 1..Len(ws) :
            /\ ws[row].app_id = app_id
            /\ \A r \in 1..(row - 1) : ws[r].app_id # app_id
    ELSE Len(ws)

\* the first row carrying app_id, 0 when there is none (update_job_status, lines 152-153)
FindRow(ws, app_id) ==
    IF \E row \in 1..Len(ws) : ws[row].app_id = app_id
    THEN CHOOSE row \in 1..Len(ws) :
            /\ ws[row].app_id = app_id
            /\ \A r \in 1..(row - 1) : ws[r].app_id # app_id
    ELSE 0

\* str.strip() of the notes text: leading and trailing newlines and spaces go
RECURSIVE LStrip(_)
LStrip(s) ==
    IF s # <<>> /\ Head(s) \in {" ", "\n"} THEN LStrip(Tail(s)) ELSE s

RECURSIVE RStrip(_)
RStrip(s) ==
    IF s # <<>> /\ s[Len(s)] \in {" ", "\n"} THEN RStrip(SubSeq(s, 1, Len(s) - 1)) ELSE s

Strip(s) == RStrip(LStrip(s))

\* an update that puts the new note in the place of the notes of the row
UpdatedRow_notes_replaced(r, new_status, notes, t) ==
    [r EXCEPT !.status = new_status,
              !.last_updated = FmtTimestamp(t),
              !.notes = IF notes # Empty
                        THEN Strip(FmtDate(t) \o <<":", " ">> \o notes)
                        ELSE @]

\* the row update_job_status writes, lines 154-159
UpdatedRow(r, new_status, notes, t) ==
    [r EXCEPT !.status = new_status,
              !.last_updated = FmtTimestamp(t),
              !.notes = IF notes # Empty
                        THEN Strip(@ \o <<"\n">> \o FmtDate(t) \o <<":", " ">> \o notes)
                        ELSE @]

-----------------------------------------------------------------------------
(* ProfileMatcher (profile_matcher.py) *)
\* the text literals of profile_matcher.py
MatcherText ==
    [ fresher |-> <<"f","r","e","s","h","e","r">>,
      no_experience |-> <<"n","o"," ","e","x","p","e","r","i","e","n","c","e">>,
      entry_level |-> <<"e","n","t","r","y"," ","l","e","v","e","l">>,
      zero_year |-> <<"0"," ","y","e","a","r">>,
      intern |-> <<"i","n","t","e","r","n">>,
      internship |-> <<"i","n","t","e","r","n","s","h","i","p">>,
      graduate |-> <<"g","r","a","d","u","a","t","e">>,
      year |-> <<"y","e","a","r">>,
      experience |-> <<"e","x","p","e","r","i","e","n","c","e">> ]

\* [x.lower() for x in xs]
LowerAll(xs) == [i \in 1..Len(xs) |-> Lower(xs[i])]

\* ProfileMatcher.__init__: the preferences, lower-cased
ProfileMatcherInit(cfg) ==
    LET job_preferences == Get(cfg, "job_preferences", <<>>)
        experience_range == Get(job_preferences, "experience_range", <<>>)
    IN [ job_titles        |-> LowerAll(Get(job_preferences, "job_titles", <<>>)),
         keywords          |-> LowerAll(Get(job_preferences, "keywords", <<>>)),
         locations         |-> LowerAll(Get(job_preferences, "locations", <<>>)),
         excluded_keywords |-> LowerAll(Get(job_preferences, "excluded_keywords", <<>>)),
         min_experience    |-> Get(experience_range, "min_years", 0),
         max_experience    |-> Get(experience_range, "max_years", 1) ]

DigitChars == {"0","1","2","3","4","5","6","7","8","9"}
SpaceChars == {" ", "\t", "\n", "\r"}
DashToChars == {"-", "t", "o"}

\* the length of the longest run of characters of cls that starts at position p
RECURSIVE Run(_, _, _)
Run(s, p, cls) ==
    IF p <= Len(s) /\ s[p] \in cls THEN 1 + Run(s, p + 1, cls) ELSE 0

\* int(digits)
RECURSIVE ToInt(_)
ToInt(ds) ==
    IF ds = <<>> THEN 0
    ELSE 10 * ToInt(SubSeq(ds, 1, Len(ds) - 1))
         + (CHOOSE n \in 0..9 : Digit(n) = ds[Len(ds)])

\* one match of (\d+)\s*[-to]*\s*(\d*)\s*year at position p. The classes \d, \s and
\* [-to] are disjoint and none holds "y", so each greedy quantifier takes its whole
\* run and backtracking never reaches another match. The match is followed through
\* the pattern one element at a time: p1..p6 are the positions behind (\d+), \s*,
\* [-to]*, \s*, (\d*) and \s*.
YearsTail(s, p, p1, p4, p5, p6) ==
    [ ok     |-> p1 > p /\ p6 + 3 <= Len(s) /\ SubSeq(s, p6, p6 + 3) = MatcherText.year,
      first  |-> SubSeq(s, p, p1 - 1),
      second |-> SubSeq(s, p4, p5 - 1),
      end    |-> p6 + 4 ]
YearsSpace3(s, p, p1, p4, p5) == YearsTail(s, p, p1, p4, p5, p5 + Run(s, p5, SpaceChars))
YearsDigits2(s, p, p1, p4) == YearsSpace3(s, p, p1, p4, p4 + Run(s, p4, DigitChars))
YearsSpace2(s, p, p1, p3) == YearsDigits2(s, p, p1, p3 + Run(s, p3, SpaceChars))
YearsDashTo(s, p, p1, p2) == YearsSpace2(s, p, p1, p2 + Run(s, p2, DashToChars))
YearsSpace1(s, p, p1) == YearsDashTo(s, p, p1, p1 + Run(s, p1, SpaceChars))
MatchYearsAt(s, p) == YearsSpace1(s, p, p + Run(s, p, DigitChars))

\* re.findall(year_pattern, s) from position p on: the matches, left to right
RECURSIVE FindAllYears(_, _)
YearsNext(s, p, m) ==
    IF m.ok THEN <<m>> \o FindAllYears(s, m.end) ELSE FindAllYears(s, p + 1)
FindAllYears(s, p) ==
    IF p > Len(s) THEN <<>> ELSE YearsNext(s, p, MatchYearsAt(s, p))

\* the loop of _match_experience, lines 149-157, over the matches of the pattern
RangeOverlaps(self, min_years, second) ==
    /\ min_years <= self.max_experience
    /\ (IF second # <<>> THEN ToInt(second) ELSE min_years) >= self.min_experience

AnyRangeOverlaps(self, matches) ==
    \E i \in 1..Len(matches) :
        RangeOverlaps(self, ToInt(matches[i].first), matches[i].second)

\* lines 148-164: the matches decide; without one the text is let through, with
\* the word "experience" (line 160) or without it (line 164)
YearsDecide(self, matches, experience_text) ==
    IF matches # <<>> THEN AnyRangeOverlaps(self, matches)
    ELSE IF Contains(MatcherText.experience, experience_text) THEN TRUE
    ELSE TRUE

\* ProfileMatcher._match_experience, on the lower-cased text
MatchExperienceLower(self, experience_text) ==
    IF \E keyword \in {MatcherText.fresher, MatcherText.no_experience,
                        MatcherText.entry_level, MatcherText.zero_year} :
          Contains(keyword, experience_text)
    THEN TRUE
    ELSE IF Contains(MatcherText.intern, experience_text) THEN TRUE
    ELSE YearsDecide(self, FindAllYears(experience_text, 1), experience_text)

match_experience(self, experience_text) == MatchExperienceLower(self, Lower(experience_text))

\* str.split(): the words between runs of whitespace
RECURSIVE SplitFrom(_, _)
SplitWord(s, q, n) ==
    IF q > Len(s) THEN <<>> ELSE <<SubSeq(s, q, q + n - 1)>> \o SplitFrom(s, q + n)
SplitAt(s, q) == SplitWord(s, q, Run(s, q, {s[i] : i \in 1..Len(s)} \ SpaceChars))
SplitFrom(s, p) == SplitAt(s, p + Run(s, p, SpaceChars))

Split(s) == SplitFrom(s, 1)

Min(a, b) == IF a < b THEN a ELSE b

\* the entry-level words of match_job, line 106
EntryKeywords ==
    {MatcherText.intern, MatcherText.internship, MatcherText.fresher,
     MatcherText.entry_level, MatcherText.graduate}

\* a veto that looks for the excluded keywords in the title only
FirstExcluded_title_only(self, job_title, job_description) ==
    LET hit(i) == Contains(self.excluded_keywords[i], job_title)
        n == Len(self.excluded_keywords)
    IN IF \E i \in 1..n : hit(i)
       THEN CHOOSE i \in 1..n : hit(i) /\ \A j \in 1..(i - 1) : ~hit(j)
       ELSE 0

\* the first excluded keyword, in list order, found in the title or the description;
\* 0 when there is none (match_job, lines 55-57)
FirstExcluded(self, job_title, job_description) ==
    LET hit(i) == \/ Contains(self.excluded_keywords[i], job_title)
                  \/ Contains(self.excluded_keywords[i], job_description)
        n == Len(self.excluded_keywords)
    IN IF \E i \in 1..n : hit(i)
       THEN CHOOSE i \in 1..n : hit(i) /\ \A j \in 1..(i - 1) : ~hit(j)
       ELSE 0

\* some word longer than 3 characters of the words is in the title (line 75)
AnyWordIn(words, job_title) ==
    \E w \in 1..Len(words) : Len(words[w]) > 3 /\ Contains(words[w], job_title)

\* a title score without the partial match of single words
TitleScore_exact_only(self, job_title) ==
    IF \E i \in 1..Len(self.job_titles) : Contains(self.job_titles[i], job_title)
    THEN 30 ELSE 0

\* title_score of match_job, lines 64-78
TitleScore(self, job_title) ==
    IF \E i \in 1..Len(self.job_titles) : Contains(self.job_titles[i], job_title)
    THEN 30
    ELSE IF \E i \in 1..Len(self.job_titles) :
               AnyWordIn(Split(self.job_titles[i]), job_title)
         THEN 15
         ELSE 0

\* keyword_matches of match_job, lines 83-88: one per entry of the keyword list
KeywordMatches(self, job_title, job_description) ==
    Cardinality({i \in 1..Len(self.keywords) :
                    \/ Contains(self.keywords[i], job_description)
                    \/ Contains(self.keywords[i], job_title)})

\* location_score of match_job, lines 96-101
LocationScore(self, location) ==
    IF \E i \in 1..Len(self.locations) : Contains(self.locations[i], location)
    THEN 20 ELSE 0

\* the entry-level bonus of match_job, lines 106-111
EntryBonus(job_title, job_description) ==
    IF \E entry_kw \in EntryKeywords :
          Contains(entry_kw, job_title) \/ Contains(entry_kw, job_description)
    THEN 10 ELSE 0

\* the result of match_job for a posting that passed the veto and the experience
\* check, lines 113-122
Scored(score, threshold) ==
    [is_match |-> score >= threshold, score |-> score,
     reason |-> IF score >= threshold THEN <<"match">> ELSE <<"score too low">>]

\* match_job after the excluded keywords were looked up, lines 55-122
MatchJobFields(self, job_title, job_description, location, experience, excluded) ==
    IF excluded # 0
    THEN [is_match |-> FALSE, score |-> 0,
          reason |-> <<"excluded keyword", self.excluded_keywords[excluded]>>]
    ELSE IF ~match_experience(self, experience)
    THEN [is_match |-> FALSE, score |-> 0, reason |-> <<"experience", experience>>]
    ELSE Scored(TitleScore(self, job_title)
                + Min(KeywordMatches(self, job_title, job_description) * 5, 40)
                + LocationScore(self, location)
                + EntryBonus(job_title, job_description),
                40)

\* match_job on the lower-cased fields of lines 46-49
MatchJobLower(self, job_title, job_description, location, experience) ==
    MatchJobFields(self, job_title, job_description, location, experience,
                   FirstExcluded(self, job_title, job_description))

\* ProfileMatcher.match_job: (is_match, score, reason)
match_job(self, job_data) ==
    MatchJobLower(self,
                  Lower(Get(job_data, "job_title", Empty)),
                  Lower(Get(job_data, "description", Empty)),
                  Lower(Get(job_data, "location", Empty)),
                  Lower(Get(job_data, "experience", Empty)))

\* d[k] = v on a dictionary
Put(d, k, v) == [x \in (DOMAIN d) \cup {k} |-> IF x = k THEN v ELSE d[x]]

\* the jobs of rank_jobs after its loop (lines 178-183): a job that matches,
\* by the match_job results res, is given its match_score and match_reason, in place
ScoredJobs(res, job_list) ==
    [i \in 1..Len(job_list) |->
        IF res[i].is_match
        THEN Put(Put(job_list[i], "match_score", res[i].score), "match_reason", res[i].reason)
        ELSE job_list[i]]

\* a sort that leaves the list in the order of discovery
InsertByScore_unsorted(sorted, x, job_list) == Append(sorted, x)

\* a sort that is not stable: x goes ahead of the elements of equal score
InsertByScore_ties_first(sorted, x, job_list) ==
    LET key(i) == Get(job_list[i], "match_score", 0)
        n == Cardinality({p \in 1..Len(sorted) : key(sorted[p]) > key(x)})
    IN SubSeq(sorted, 1, n) \o <<x>> \o SubSeq(sorted, n + 1, Len(sorted))

\* list.sort(key=match_score, reverse=True) is stable: x goes behind every element
\* whose score is not smaller
InsertByScore(sorted, x, job_list) ==
    LET key(i) == Get(job_list[i], "match_score", 0)
        n == Cardinality({p \in 1..Len(sorted) : key(sorted[p]) >= key(x)})
    IN SubSeq(sorted, 1, n) \o <<x>> \o SubSeq(sorted, n + 1, Len(sorted))

RECURSIVE SortByScore(_, _, _)
SortByScore(sorted, rest, job_list) ==
    IF rest = <<>> THEN sorted
    ELSE SortByScore(InsertByScore(sorted, Head(rest), job_list), Tail(rest), job_list)

\* the positions, in list order from position i on, of the jobs that match
RECURSIVE MatchingFrom(_, _)
MatchingFrom(res, i) ==
    IF i > Len(res) THEN <<>>
    ELSE (IF res[i].is_match THEN <<i>> ELSE <<>>) \o MatchingFrom(res, i + 1)

\* rank_jobs once match_job has been run on every job: res holds the results
RankScored(res, scored) ==
    [jobs |-> scored, ranked |-> SortByScore(<<>>, MatchingFrom(res, 1), scored)]

RankWith(res, job_list) == RankScored(res, ScoredJobs(res, job_list))

\* ProfileMatcher.rank_jobs. The list it returns holds the very dictionaries of
\* job_list, so it is given as the positions of those dictionaries in job_list.
rank_jobs(self, job_list) ==
    RankWith([i \in 1..Len(job_list) |-> match_job(self, job_list[i])], job_list)

\* s[:n], n of either sign
Slice(s, n) ==
    IF n >= 0 THEN SubSeq(s, 1, Min(n, Len(s))) ELSE SubSeq(s, 1, Len(s) + n)

\* the return statements of filter_and_rank, lines 203-206
Truncate(r, limit) ==
    IF limit # <<>> /\ limit[1] # 0
    THEN [jobs |-> r.jobs, ranked |-> Slice(r.ranked, limit[1])]
    ELSE r

\* filter_and_rank without the slice of line 204
filter_and_rank_untruncated(self, job_list, limit) == rank_jobs(self, job_list)

\* ProfileMatcher.filter_and_rank; limit is <<>> for None and <<n>> for the number n
filter_and_rank(self, job_list, limit) == Truncate(rank_jobs(self, job_list), limit)

-----------------------------------------------------------------------------
(* The postings and preferences the matcher is run on *)

\* config.json as load_config returns it
ConfigPool ==
    { [job_preferences |->
         [job_titles |-> <<Sample.SoftwareDeveloperIntern>>,
          keywords |-> <<Sample.python, Sample.react>>,
          excluded_keywords |-> <<Sample.Senior>>, locations |-> <<Sample.Remote>>,
          experience_range |-> [min_years |-> 0, max_years |-> 1]]],
      [job_preferences |->
         [job_titles |-> <<Sample.data_analyst>>,
          keywords |-> <<Sample.Python, Sample.python, Sample.sql>>,
          locations |-> <<Sample.pune>>]],
      [job_preferences |->
         [job_titles |-> <<Sample.data_analyst, Sample.software_developer_intern>>,
          keywords |-> <<Sample.python>>, excluded_keywords |-> <<Sample.react, Sample.sql>>,
          locations |-> <<Sample.remote, Sample.pune>>,
          experience_range |-> [min_years |-> 0, max_years |-> 3]]] }

PostingTitles == {Sample.SoftwareDeveloperIntern, Sample.SeniorSoftwareDeveloperIntern,
                  Sample.WebDeveloper, Sample.DataAnalyst}
PostingDescriptions == {Empty, Sample.PythonReact, Sample.SeniorTeam}
PostingLocations == {Sample.Remote, Sample.Pune}
PostingExperience == {Sample.Fresher, Sample.years_0_1, Sample.years_3_to_5, Sample.years_5,
                      Sample.years_10}

\* job dictionaries, with and without an experience entry
PostingPool ==
    { [job_title |-> t, company |-> Sample.Ab, location |-> l, description |-> d,
       experience |-> e] :
        t \in PostingTitles, d \in PostingDescriptions, l \in PostingLocations,
        e \in PostingExperience }
    \cup
    { [job_title |-> t, company |-> Sample.Ab, location |-> l, description |-> d] :
        t \in PostingTitles, d \in PostingDescriptions, l \in PostingLocations }

NotEvaluated == [is_match |-> FALSE, score |-> -1, reason |-> <<>>]

\* the classifier is not in use
MailIdle ==
    /\ email = <<>>
    /\ update_type = "unset"

\* filter_and_rank is not under evaluation
RankIdle == ranking = [job_list |-> <<>>, limit |-> <<>>, calls |-> 0,
                       first |-> <<>>, after |-> <<>>, second |-> <<>>]

-----------------------------------------------------------------------------
(* The values the ledger's callers pass *)
\* job_data dictionaries given to add_job_application
JobDataPool ==
    { [platform |-> S_LinkedIn, company |-> Sample.Ab, job_title |-> Sample.Dev],
      [platform |-> Sample.linkedin, company |-> Sample.AB, job_title |-> Sample.DEV,
       status |-> Sample.Shortlisted, notes |-> Sample.called],
      [company |-> Sample.c, job_title |-> Sample.Dev, status |-> Sample.Rejected] }

\* a text as written, lower-cased or upper-cased
Recase(form, s) == IF form = "lower" THEN Lower(s) ELSE IF form = "upper" THEN Upper(s) ELSE s

\* the (company, job_title, platform) queries given to check_already_applied:
\* the triple of a row as written, lower-cased or upper-cased, and a fixed one
Queries ==
    { [company |-> Recase(f, worksheet[i].company),
       job_title |-> Recase(f, worksheet[i].job_title),
       platform |-> Recase(f, worksheet[i].platform)] :
         i \in 1..Len(worksheet), f \in {"same", "lower", "upper"} }
    \cup { [company |-> Sample.ab, job_title |-> Sample.Dev, platform |-> S_LinkedIn] }

StatusPool == {Sample.Offer, Sample.NotApplied}
NotesPool == {Empty, Sample.note}

\* a row written by an earlier process run, found in the file
PriorRow ==
    RowData([platform |-> S_LinkedIn, company |-> Sample.c, job_title |-> Sample.DEV,
             notes |-> Sample.indented], 0)

-----------------------------------------------------------------------------
(* JobTracker: the operations *)

\* workbook.save(excel_path): all rows go to the file, or the save raises
Saved(ws, saveOk) == IF saveOk THEN ws ELSE disk

\* JobTracker.__init__ with _initialize_workbook and _create_new_workbook
JobTrackerInit(loadOk) ==
    /\ workbook = "none"
    /\ workbook' = "open"
    /\ IF disk # NoFile /\ loadOk
       THEN /\ worksheet' = disk
            /\ origin' = [i \in 1..Len(disk) |-> "loaded"]
            /\ disk' = disk
       ELSE /\ worksheet' = <<>>
            /\ origin' = <<>>
            /\ disk' = <<>>
    /\ call' = [op |-> "init"]
    /\ ret' = TRUE
    /\ UNCHANGED <<now, closeCalls, nUpdates>>

\* JobTracker.add_job_application
AddJobApplication(job_data, saveOk) ==
    /\ workbook = "open"
    /\ worksheet' = Append(worksheet, RowData(job_data, now))
    /\ disk' = Saved(worksheet', saveOk)
    /\ ret' = saveOk
    /\ origin' = Append(origin, IF saveOk THEN "committed" ELSE "failed")
    /\ call' = [op |-> "add", job_data |-> job_data]
    /\ UNCHANGED <<workbook, now, closeCalls, nUpdates>>

\* JobTracker.update_job_status
UpdateJobStatus(app_id, new_status, notes, saveOk) ==
    /\ workbook = "open"
    /\ nUpdates < MaxUpdates
    /\ nUpdates' = nUpdates + 1
    /\ call' = [op |-> "update", app_id |-> app_id, new_status |-> new_status, notes |-> notes]
    /\ LET row == FindRow(worksheet, app_id) IN
         IF row = 0
         THEN /\ ret' = FALSE
              /\ UNCHANGED <<worksheet, disk>>
         ELSE /\ worksheet' = [worksheet EXCEPT ![row] = UpdatedRow(@, new_status, notes, now)]
              /\ disk' = Saved(worksheet', saveOk)
              /\ ret' = saveOk
    /\ UNCHANGED <<workbook, now, origin, closeCalls>>

\* JobTracker.check_already_applied
CheckAlreadyApplied(company, job_title, platform) ==
    /\ workbook = "open"
    /\ call' = [op |-> "check", company |-> company, job_title |-> job_title,
                platform |-> platform]
    /\ ret' = check_already_applied(worksheet, company, job_title, platform)
    /\ UNCHANGED <<workbook, worksheet, disk, now, origin, closeCalls, nUpdates>>

\* JobTracker.get_application_stats
GetApplicationStats ==
    /\ workbook = "open"
    /\ call' = [op |-> "stats"]
    /\ ret' = get_application_stats(worksheet)
    /\ UNCHANGED <<workbook, worksheet, disk, now, origin, closeCalls, nUpdates>>

\* JobTracker.close: save and close, any exception swallowed
Close(saveOk) ==
    /\ workbook = "open"
    /\ closeCalls < MaxCloses
    /\ closeCalls' = closeCalls + 1
    /\ disk' = Saved(worksheet, saveOk)
    /\ call' = [op |-> "close"]
    /\ ret' = saveOk
    /\ UNCHANGED <<workbook, worksheet, now, origin, nUpdates>>

\* a second of wall-clock time passes
Tick ==
    /\ now < MaxClock
    /\ now' = now + 1
    /\ UNCHANGED <<workbook, worksheet, disk, call, ret, origin, closeCalls, nUpdates>>

-----------------------------------------------------------------------------
(* LinkedInAgent (linkedin_agent.py) *)
S_FailedToApply ==
    <<"F","a","i","l","e","d"," ","t","o"," ","a","p","p","l","y",":"," ">>

\* max_applications_per_session when the configuration does not give it (line 54)
DefaultMaxApplications == 10

\* the results dictionary of search_and_apply, lines 70-76
NewResults ==
    [platform |-> S_LinkedIn, jobs_found |-> 0, jobs_matched |-> 0,
     applications_submitted |-> 0, errors |-> <<>>]

\* the job listings the search agent can report (JobListing.model_dump())
DiscoveredPool ==
    { [job_title |-> Sample.Dev, company |-> Sample.Ab, location |-> Sample.Remote,
       description |-> Sample.python],
      [job_title |-> Sample.DEV, company |-> Sample.AB, location |-> Sample.Pune,
       description |-> Sample.Python_intern],
      [job_title |-> Sample.Dev, company |-> Sample.c, location |-> Sample.Remote,
       description |-> Empty],
      [job_title |-> Sample.SeniorDev, company |-> Sample.Ab, location |-> Sample.Remote,
       description |-> Sample.python] }

\* the lists of at most n listings, repetitions included
ListsUpTo(n) == UNION {[1..len -> DiscoveredPool] : len \in 0..n}

\* the job preferences of the configurations of a run
RunPreferences ==
    [job_titles |-> <<Sample.dev>>, keywords |-> <<Sample.python>>,
     excluded_keywords |-> <<Sample.senior>>, locations |-> <<Sample.remote>>]

\* config.json of a run: the preferences and the budget of the platform
RunnerConfigPool ==
    { [job_preferences |-> RunPreferences,
       platforms |-> [linkedin |-> [max_applications_per_session |-> b]]] :
        b \in 0..MaxBudget }

\* the agent is not in use
RunnerIdle ==
    /\ agent = "none"
    /\ max_applications = 0
    /\ applications_count = 0
    /\ rpc = "idle"
    /\ jobs = <<>>
    /\ matched_jobs = <<>>
    /\ pos = 0
    /\ results = NewResults
    /\ success = "unset"
    /\ surface = [op |-> "none", outcome |-> "none"]
    /\ submitCalls = 0
    /\ runs = 0

\* LinkedInAgent.__init__
LinkedInAgentInit ==
    /\ agent = "none"
    /\ workbook = "open"
    /\ agent' = "ready"
    /\ max_applications' =
          Get(Get(Get(config, "platforms", <<>>), "linkedin", <<>>),
              "max_applications_per_session", DefaultMaxApplications)
    /\ applications_count' = 0
    /\ UNCHANGED <<rpc, jobs, matched_jobs, pos, results, success, surface, submitCalls,
                   runs>>

\* search_and_apply is called: lines 66-76, up to the await of line 80
StartRun ==
    /\ agent = "ready"
    /\ rpc \in {"idle", "returned"}
    /\ rpc' = "open"
    /\ results' = NewResults
    /\ jobs' = <<>>
    /\ matched_jobs' = <<>>
    /\ pos' = 0
    /\ success' = "unset"
    /\ surface' = [op |-> "none", outcome |-> "none"]
    /\ submitCalls' = 0
    /\ runs' = runs + 1
    /\ UNCHANGED <<agent, max_applications, applications_count>>

\* the except clause of search_and_apply, lines 123-127
RunFails(what) ==
    /\ results' = [results EXCEPT !.errors = Append(@, what)]
    /\ rpc' = "returned"

\* await self._open_linkedin_jobs() returns, raises an Exception, or is interrupted
\* (KeyboardInterrupt and CancelledError pass every except Exception clause)
OpenLinkedInJobs(outcome) ==
    /\ rpc = "open"
    /\ CASE outcome = "ok" -> rpc' = "search" /\ UNCHANGED results
         [] outcome = "raise" -> RunFails(<<"o","p","e","n">>)
         [] outcome = "interrupt" -> rpc' = "escaped" /\ UNCHANGED results
    /\ surface' = [op |-> "open", outcome |-> outcome]
    /\ UNCHANGED <<agent, max_applications, applications_count, jobs, matched_jobs, pos,
                   success, submitCalls, runs>>

\* lines 84-90 of search_and_apply: listed is what _search_jobs returned, r what
\* filter_and_rank made of it
Ranked(listed, r) ==
    /\ jobs' = r.jobs
    /\ matched_jobs' = r.ranked
    /\ results' = [results EXCEPT !.jobs_found = Len(listed),
                                  !.jobs_matched = Len(r.ranked)]
    /\ pos' = 1
    /\ rpc' = "loop"

\* await self._search_jobs() (line 83) and the ranking of lines 84-90. found is the
\* list of the structured output; "failed" is a run whose result has success false,
\* "no_result" one without structured output: both leave the list empty (line 185).
SearchJobs(outcome, found) ==
    /\ rpc = "search"
    /\ surface' = [op |-> "search", outcome |-> outcome]
    /\ CASE outcome = "ok" ->
              Ranked(found, filter_and_rank(ProfileMatcherInit(config), found,
                                            <<max_applications>>))
         [] outcome \in {"failed", "no_result"} ->
              Ranked(<<>>, filter_and_rank(ProfileMatcherInit(config), <<>>,
                                           <<max_applications>>))
         [] outcome = "raise" ->
              /\ RunFails(<<"s","e","a","r","c","h">>)
              /\ UNCHANGED <<jobs, matched_jobs, pos>>
         [] outcome = "interrupt" ->
              /\ rpc' = "escaped"
              /\ UNCHANGED <<jobs, matched_jobs, pos, results>>
    /\ UNCHANGED <<agent, max_applications, applications_count, success, submitCalls, runs>>

\* the job in hand
Job == jobs[matched_jobs[pos]]

\* the for statement of line 93 has no job left: return results
LoopEnds ==
    /\ rpc = "loop"
    /\ pos > Len(matched_jobs)
    /\ rpc' = "returned"
    /\ UNCHANGED <<agent, max_applications, applications_count, jobs, matched_jobs, pos,
                   results, success, surface, submitCalls, runs>>

\* a loop that makes the dedup check and calls _apply_to_job whatever it says
LoopHead_no_skip ==
    /\ rpc = "loop"
    /\ pos <= Len(matched_jobs)
    /\ IF applications_count >= max_applications
       THEN /\ rpc' = "returned"
            /\ UNCHANGED <<pos, submitCalls, ledgerVars>>
       ELSE /\ CheckAlreadyApplied(Get(jobs[matched_jobs[pos]], "company", Empty),
                                   Get(jobs[matched_jobs[pos]], "job_title", Empty),
                                   S_LinkedIn)
            /\ pos' = pos /\ rpc' = "apply" /\ submitCalls' = submitCalls + 1
    /\ UNCHANGED <<agent, max_applications, applications_count, jobs, matched_jobs,
                   results, success, surface, runs>>

\* one pass of lines 93-105: the budget test, then the dedup check; the job is
\* skipped, or _apply_to_job is called for it
LoopHead ==
    /\ rpc = "loop"
    /\ pos <= Len(matched_jobs)
    /\ IF applications_count >= max_applications
       THEN /\ rpc' = "returned"
            /\ UNCHANGED <<pos, submitCalls, ledgerVars>>
       ELSE /\ CheckAlreadyApplied(Get(Job, "company", Empty), Get(Job, "job_title", Empty),
                                   S_LinkedIn)
            /\ IF ret'
               THEN pos' = pos + 1 /\ rpc' = "loop" /\ UNCHANGED submitCalls
               ELSE pos' = pos /\ rpc' = "apply" /\ submitCalls' = submitCalls + 1
    /\ UNCHANGED <<agent, max_applications, applications_count, jobs, matched_jobs,
                   results, success, surface, runs>>

\* a loop body that adds the job to the tracker whatever _apply_to_job returned
ApplyToJob_records_failures(outcome, saveOk) ==
    /\ rpc = "apply"
    /\ outcome # "interrupt"
    /\ results' = IF outcome = "confirmed"
                  THEN [results EXCEPT !.applications_submitted = @ + 1]
                  ELSE [results EXCEPT
                          !.errors = Append(@, S_FailedToApply \o Get(Job, "job_title", Empty))]
    /\ applications_count' = applications_count + (IF outcome = "confirmed" THEN 1 ELSE 0)
    /\ jobs' = [jobs EXCEPT ![matched_jobs[pos]] =
                   Put(Put(Job, "platform", S_LinkedIn), "status", TrackerText.Applied)]
    /\ AddJobApplication(jobs'[matched_jobs[pos]], saveOk)
    /\ success' = IF outcome = "confirmed" THEN "True" ELSE "False"
    /\ pos' = pos + 1
    /\ rpc' = "loop"
    /\ surface' = [op |-> "apply", outcome |-> outcome]
    /\ UNCHANGED <<agent, max_applications, matched_jobs, submitCalls, runs>>

\* a loop body that keeps a job whose submission failed in hand and tries it again
ApplyToJob_retries_failed(outcome, saveOk) ==
    /\ rpc = "apply"
    /\ CASE outcome = "confirmed" ->
              LET job == Put(Put(Job, "platform", S_LinkedIn), "status", TrackerText.Applied)
              IN /\ results' = [results EXCEPT !.applications_submitted = @ + 1]
                 /\ applications_count' = applications_count + 1
                 /\ jobs' = [jobs EXCEPT ![matched_jobs[pos]] = job]
                 /\ AddJobApplication(job, saveOk)
                 /\ success' = "True"
                 /\ pos' = pos + 1
                 /\ rpc' = "loop"
         [] outcome \in {"not_confirmed", "no_result", "raise"} ->
              /\ results' = [results EXCEPT
                    !.errors = Append(@, S_FailedToApply \o Get(Job, "job_title", Empty))]
              /\ success' = "False"
              /\ pos' = pos
              /\ rpc' = "loop"
              /\ UNCHANGED <<applications_count, jobs, ledgerVars>>
         [] outcome = "interrupt" ->
              /\ rpc' = "escaped"
              /\ UNCHANGED <<results, applications_count, jobs, pos, success, ledgerVars>>
    /\ surface' = [op |-> "apply", outcome |-> outcome]
    /\ UNCHANGED <<agent, max_applications, matched_jobs, submitCalls, runs>>

\* await self._apply_to_job(job) returns (lines 108-121). _apply_to_job gives True for
\* a structured confirmation with success, and False for a confirmation without
\* success, for a run without structured output and for an Exception.
ApplyToJob(outcome, saveOk) ==
    /\ rpc = "apply"
    /\ CASE outcome = "confirmed" ->
              LET job == Put(Put(Job, "platform", S_LinkedIn), "status", TrackerText.Applied)
              IN /\ results' = [results EXCEPT !.applications_submitted = @ + 1]
                 /\ applications_count' = applications_count + 1
                 /\ jobs' = [jobs EXCEPT ![matched_jobs[pos]] = job]
                 /\ AddJobApplication(job, saveOk)
                 /\ success' = "True"
                 /\ pos' = pos + 1
                 /\ rpc' = "loop"
         [] outcome \in {"not_confirmed", "no_result", "raise"} ->
              /\ results' = [results EXCEPT
                    !.errors = Append(@, S_FailedToApply \o Get(Job, "job_title", Empty))]
              /\ success' = "False"
              /\ pos' = pos + 1
              /\ rpc' = "loop"
              /\ UNCHANGED <<applications_count, jobs, ledgerVars>>
         [] outcome = "interrupt" ->
              /\ rpc' = "escaped"
              /\ UNCHANGED <<results, applications_count, jobs, pos, success, ledgerVars>>
    /\ surface' = [op |-> "apply", outcome |-> outcome]
    /\ UNCHANGED <<agent, max_applications, matched_jobs, submitCalls, runs>>

\* main is not run
MainIdle ==
    /\ pc = "idle"
    /\ all_results = <<>>
    /\ report = <<>>
    /\ failure = "none"

OpenOutcomes == {"ok", "raise", "interrupt"}
SearchOutcomes == {"ok", "failed", "no_result", "raise", "interrupt"}
ApplyOutcomes == {"confirmed", "not_confirmed", "no_result", "raise", "interrupt"}

-----------------------------------------------------------------------------
(* One agent on one ledger: search_and_apply called again and again *)
InitRunner ==
    /\ workbook = "none"
    /\ worksheet = <<>>
    /\ origin = <<>>
    /\ disk \in {NoFile, <<PriorRow>>}
    /\ now = 1
    /\ call = [op |-> "none"]
    /\ ret = FALSE
    /\ closeCalls = 0
    /\ nUpdates = 0
    /\ config \in RunnerConfigPool
    /\ posting = <<>>
    /\ mres = NotEvaluated
    /\ MailIdle
    /\ RankIdle
    /\ RunnerIdle
    /\ MainIdle

Init == InitRunner

Next ==
    \/ JobTrackerInit(TRUE) /\ UNCHANGED <<matchVars, runnerVars, mainVars>>
    \/ LinkedInAgentInit /\ UNCHANGED <<ledgerVars, matchVars, mainVars>>
    \/ runs < MaxRuns /\ StartRun /\ UNCHANGED <<ledgerVars, matchVars, mainVars>>
    \/ \E outcome \in OpenOutcomes :
          OpenLinkedInJobs(outcome) /\ UNCHANGED <<ledgerVars, matchVars, mainVars>>
    \/ \E outcome \in SearchOutcomes, found \in ListsUpTo(MaxJobs) :
          SearchJobs(outcome, found) /\ UNCHANGED <<ledgerVars, matchVars, mainVars>>
    \/ LoopHead /\ UNCHANGED <<matchVars, mainVars>>
    \/ LoopEnds /\ UNCHANGED <<ledgerVars, matchVars, mainVars>>
    \/ \E outcome \in ApplyOutcomes, saveOk \in BOOLEAN :
          ApplyToJob(outcome, saveOk) /\ UNCHANGED <<matchVars, mainVars>>
    \/ Tick /\ UNCHANGED <<matchVars, runnerVars, mainVars>>

Spec == Init /\ [][Next]_vars

-----------------------------------------------------------------------------
(* The ledger driven by any caller: every operation, in any order *)

\* the matcher is not in use
MatchIdle ==
    /\ config = [job_preferences |-> <<>>]
    /\ posting = <<>>
    /\ mres = NotEvaluated
    /\ MailIdle
    /\ RankIdle

\* the ledger is not in use
LedgerIdle ==
    /\ workbook = "none"
    /\ worksheet = <<>>
    /\ origin = <<>>
    /\ disk = NoFile
    /\ now = 1
    /\ call = [op |-> "none"]
    /\ ret = FALSE
    /\ closeCalls = 0
    /\ nUpdates = 0

InitLedger ==
    /\ workbook = "none"
    /\ worksheet = <<>>
    /\ origin = <<>>
    /\ disk \in {NoFile, <<PriorRow>>}
    /\ now = 1
    /\ call = [op |-> "none"]
    /\ ret = FALSE
    /\ closeCalls = 0
    /\ nUpdates = 0
    /\ MatchIdle
    /\ RunnerIdle
    /\ MainIdle

LedgerStep ==
    \/ \E loadOk \in BOOLEAN : JobTrackerInit(loadOk)
    \/ /\ Len(worksheet) < MaxRows
       /\ \E job_data \in JobDataPool, saveOk \in BOOLEAN : AddJobApplication(job_data, saveOk)
    \/ \E app_id \in {worksheet[i].app_id : i \in 1..Len(worksheet)} \cup {Sample.XYZ999},
          new_status \in StatusPool, notes \in NotesPool, saveOk \in BOOLEAN :
            UpdateJobStatus(app_id, new_status, notes, saveOk)
    \/ \E q \in Queries : CheckAlreadyApplied(q.company, q.job_title, q.platform)
    \/ GetApplicationStats
    \/ \E saveOk \in BOOLEAN : Close(saveOk)
    \/ Tick

NextLedger == LedgerStep /\ UNCHANGED <<matchVars, runnerVars, mainVars>>

SpecLedger == InitLedger /\ [][NextLedger]_vars

-----------------------------------------------------------------------------
(* The matcher applied to one posting *)

\* match_job(posting) on a ProfileMatcher built from config
Evaluate ==
    /\ mres = NotEvaluated
    /\ mres' = match_job(ProfileMatcherInit(config), posting)
    /\ UNCHANGED <<config, posting, email, update_type, ranking>>

InitMatch ==
    /\ config \in ConfigPool
    /\ posting \in PostingPool
    /\ mres = NotEvaluated
    /\ MailIdle
    /\ RankIdle
    /\ LedgerIdle
    /\ RunnerIdle
    /\ MainIdle

NextMatch == Evaluate /\ UNCHANGED <<ledgerVars, runnerVars, mainVars>>

SpecMatch == InitMatch /\ [][NextMatch]_vars

-----------------------------------------------------------------------------
(* filter_and_rank applied to one list, and again to the list it returned *)

\* the list filter_and_rank returns: the dictionaries of r.jobs in ranked order
RankedList(r) == [p \in 1..Len(r.ranked) |-> r.jobs[r.ranked[p]]]

\* the limits given: None (<<>>), or a number
LimitPool == {<<>>} \cup {<<n>> : n \in -1..MaxBudget}

\* ranked = matcher.filter_and_rank(job_list, limit)
RankOnce ==
    /\ ranking.calls = 0
    /\ ranking' = [ranking EXCEPT !.calls = 1,
          !.first = RankedList(filter_and_rank(ProfileMatcherInit(config),
                                               ranking.job_list, ranking.limit)),
          !.after = filter_and_rank(ProfileMatcherInit(config), ranking.job_list,
                                    ranking.limit).jobs]
    /\ UNCHANGED <<config, posting, mres, email, update_type>>

\* matcher.filter_and_rank(ranked, limit), on the list the first call returned
RankAgain ==
    /\ ranking.calls = 1
    /\ ranking' = [ranking EXCEPT !.calls = 2, !.second =
          RankedList(filter_and_rank(ProfileMatcherInit(config), ranking.first,
                                     ranking.limit))]
    /\ UNCHANGED <<config, posting, mres, email, update_type>>

InitRank ==
    /\ config \in RunnerConfigPool
    /\ posting = <<>>
    /\ mres = NotEvaluated
    /\ MailIdle
    /\ ranking \in [job_list : UNION {[1..len -> DiscoveredPool \cup
                                  {[job_title |-> Sample.Dev, company |-> Sample.c,
                                    location |-> Sample.Remote,
                                    description |-> Sample.python]}] : len \in 0..MaxJobs},
                    limit : LimitPool, calls : {0}, first : {<<>>}, after : {<<>>},
                    second : {<<>>}]
    /\ LedgerIdle
    /\ RunnerIdle
    /\ MainIdle

NextRank ==
    \/ RankOnce /\ UNCHANGED <<ledgerVars, runnerVars, mainVars>>
    \/ RankAgain /\ UNCHANGED <<ledgerVars, runnerVars, mainVars>>

SpecRank == InitRank /\ [][NextRank]_vars

-----------------------------------------------------------------------------
(* EmailChecker._classify_email (email_checker.py) *)

\* the keyword lists of _classify_email, in the order of its tests
EmailKeywords ==
    [ interview |-> <<<<"i","n","t","e","r","v","i","e","w">>,
            <<"s","c","h","e","d","u","l","e">>,
            <<"m","e","e","t">>,
            <<"d","i","s","c","u","s","s">>,
            <<"r","o","u","n","d">>,
            <<"a","s","s","e","s","s","m","e","n","t">>>>,
      rejection |-> <<<<"r","e","g","r","e","t">>,
            <<"u","n","f","o","r","t","u","n","a","t","e","l","y">>,
            <<"n","o","t"," ","s","e","l","e","c","t","e","d">>,
            <<"n","o","t"," ","m","o","v","i","n","g"," ","f","o","r","w","a","r","d">>,
            <<"r","e","j","e","c","t","e","d">>>>,
      offer |-> <<<<"o","f","f","e","r">>,
            <<"c","o","n","g","r","a","t","u","l","a","t","i","o","n","s">>,
            <<"s","e","l","e","c","t","e","d">>,
            <<"p","l","e","a","s","e","d"," ","t","o"," ","i","n","f","o","r","m">>>> ]

\* the classifier with the rejection test ahead of the interview test
classify_email_rejection_first(mail) ==
    LET combined_text == Lower(Get(mail, "subject", Empty)) \o <<" ">>
                            \o Lower(Get(mail, "body", Empty))
        any(keywords) == \E k \in 1..Len(keywords) : Contains(keywords[k], combined_text)
    IN IF any(EmailKeywords.rejection) THEN "rejection"
       ELSE IF any(EmailKeywords.interview) THEN "interview"
       ELSE IF any(EmailKeywords.offer) THEN "offer"
       ELSE "None"

\* _classify_email(email): combined_text = f"{subject} {body}" of the lower-cased
\* subject and body, each '' when the key is absent; the first list with a keyword
\* in combined_text decides, None when no list has one
classify_email(mail) ==
    LET combined_text == Lower(Get(mail, "subject", Empty)) \o <<" ">>
                            \o Lower(Get(mail, "body", Empty))
        any(keywords) == \E k \in 1..Len(keywords) : Contains(keywords[k], combined_text)
    IN IF any(EmailKeywords.interview) THEN "interview"
       ELSE IF any(EmailKeywords.rejection) THEN "rejection"
       ELSE IF any(EmailKeywords.offer) THEN "offer"
       ELSE "None"

\* the messages classified: with and without a subject, with and without a body
EmailPool ==
    LET subjects == {<<>>,
                     <<"I","n","t","e","r","v","i","e","w"," ","S","c","h","e","d","u","l","e">>,
                     <<"W","e"," ","r","e","g","r","e","t",":"," ","n","o","t"," ","s","e","l","e","c","t","e","d">>,
                     <<"U","n","f","o","r","t","u","n","a","t","e","l","y",","," ","m","e","e","t"," ","l","a","t","e","r">>,
                     <<"C","o","n","g","r","a","t","u","l","a","t","i","o","n","s","!"," ","O","f","f","e","r">>,
                     <<"A","p","p","l","i","c","a","t","i","o","n"," ","r","e","c","e","i","v","e","d">>,
                     <<"n","o","t">>,
                     <<"R","e","j","e","c","t","e","d">>}
        bodies == {<<>>,
                   <<"s","e","l","e","c","t","e","d">>,
                   <<"P","l","e","a","s","e","d"," ","t","o"," ","i","n","f","o","r","m">>,
                   <<"d","i","s","c","u","s","s">>,
                   <<"u","n","f","o","r","t","u","n","a","t","e","l","y">>,
                   <<"T","h","a","n","k","s">>,
                   <<"R","O","U","N","D"," ","2">>}
    IN {[subject |-> s, body |-> b] : s \in subjects, b \in bodies}
       \cup {[subject |-> s] : s \in subjects}
       \cup {[body |-> b] : b \in bodies}
       \cup {<<>>}

\* update_type = self._classify_email(email)
Classify ==
    /\ update_type = "unset"
    /\ update_type' = classify_email(email)
    /\ UNCHANGED <<config, posting, mres, email, ranking>>

InitClassify ==
    /\ config = [job_preferences |-> <<>>]
    /\ posting = <<>>
    /\ mres = NotEvaluated
    /\ email \in EmailPool
    /\ update_type = "unset"
    /\ RankIdle
    /\ LedgerIdle
    /\ RunnerIdle
    /\ MainIdle

NextClassify == Classify /\ UNCHANGED <<ledgerVars, runnerVars, mainVars>>

SpecClassify == InitClassify /\ [][NextClassify]_vars

-----------------------------------------------------------------------------
(* main (app.py): one session *)
S_job_applications_xlsx ==
    <<"j","o","b","_","a","p","p","l","i","c","a","t","i","o","n","s",".","x","l","s","x">>

\* the JSON value null (None), which has no .get
Null == [null |-> TRUE]

\* os.path.dirname(path): what stands before the last "/", "" without one
DirName(path) ==
    IF \E i \in 1..Len(path) : path[i] = "/"
    THEN SubSeq(path, 1, (CHOOSE i \in 1..Len(path) :
                            /\ path[i] = "/"
                            /\ \A j \in (i + 1)..Len(path) : path[j] # "/") - 1)
    ELSE Empty

\* config.json of a session
MainConfigPool ==
    { [job_preferences |-> RunPreferences,
       platforms |-> [linkedin |-> [max_applications_per_session |-> 1]],
       tracking |-> [excel_file_path |-> Sample.data_jobs_xlsx]],
      [job_preferences |-> RunPreferences,
       tracking |-> [excel_file_path |-> Sample.data_jobs_xlsx]],
      [job_preferences |-> RunPreferences,
       platforms |-> [linkedin |-> [enabled |-> FALSE]],
       tracking |-> [excel_file_path |-> Sample.data_jobs_xlsx]],
      [job_preferences |-> RunPreferences,
       platforms |-> [linkedin |-> Null],
       tracking |-> [excel_file_path |-> Sample.data_jobs_xlsx]],
      [job_preferences |-> Null,
       tracking |-> [excel_file_path |-> Sample.data_jobs_xlsx]],
      [job_preferences |-> RunPreferences,
       platforms |-> [linkedin |-> [max_applications_per_session |-> 1]]] }

\* an exception or an interrupt outside the try statement of line 128 ends main
Crash(stage) ==
    /\ pc' = "exited"
    /\ failure' = stage
    /\ UNCHANGED <<all_results, report>>

\* an exception or an interrupt inside the try statement: the except clauses of
\* lines 169-174 print, and the finally clause follows
Caught(stage) ==
    /\ pc' = "finally"
    /\ failure' = stage
    /\ UNCHANGED <<all_results, report>>

\* load_config() (lines 28-37, called at line 93): the file is read, or the
\* exception is raised again
LoadConfig(readable) ==
    /\ pc = "load_config"
    /\ IF readable
       THEN pc' = "tools" /\ UNCHANGED <<all_results, report, failure>>
       ELSE Crash("load_config")
    /\ UNCHANGED <<ledgerVars, matchVars, runnerVars>>

\* AdbTools(), DroidrunConfig(), GoogleGenAI() (lines 100-103)
InitTools(outcome) ==
    /\ pc = "tools"
    /\ IF outcome = "ok"
       THEN pc' = "tracker" /\ UNCHANGED <<all_results, report, failure>>
       ELSE Crash("tools")
    /\ UNCHANGED <<ledgerVars, matchVars, runnerVars>>

\* JobTracker(excel_path) (lines 107-108). _create_new_workbook gives the directory
\* of the path to os.makedirs, which raises FileNotFoundError for "".
InitJobTracker(loadOk) ==
    /\ pc = "tracker"
    /\ IF /\ disk = NoFile \/ ~loadOk
          /\ DirName(Get(Get(config, "tracking", <<>>), "excel_file_path",
                         S_job_applications_xlsx)) = Empty
       THEN Crash("tracker") /\ UNCHANGED ledgerVars
       ELSE /\ JobTrackerInit(loadOk)
            /\ pc' = "matcher"
            /\ UNCHANGED <<all_results, report, failure>>
    /\ UNCHANGED <<matchVars, runnerVars>>

\* ProfileMatcher(config_data) (line 112): __init__ calls .get on the preferences
InitProfileMatcher ==
    /\ pc = "matcher"
    /\ IF Get(config, "job_preferences", <<>>) = Null
       THEN Crash("matcher")
       ELSE pc' = "stats" /\ UNCHANGED <<all_results, report, failure>>
    /\ UNCHANGED <<ledgerVars, matchVars, runnerVars>>

\* job_tracker.get_application_stats() and the prints of lines 115-126
MainStats ==
    /\ pc = "stats"
    /\ GetApplicationStats
    /\ pc' = "linkedin"
    /\ UNCHANGED <<all_results, report, failure, matchVars, runnerVars>>

\* lines 130-132: the enabled test of the platform and LinkedInAgent(...)
MainLinkedIn ==
    /\ pc = "linkedin"
    /\ IF Get(Get(config, "platforms", <<>>), "linkedin", <<>>) = Null
       THEN Caught("linkedin") /\ UNCHANGED runnerVars
       ELSE IF Get(Get(Get(config, "platforms", <<>>), "linkedin", <<>>), "enabled", TRUE)
       THEN /\ LinkedInAgentInit
            /\ pc' = "start"
            /\ UNCHANGED <<all_results, report, failure>>
       ELSE /\ pc' = "email"
            /\ UNCHANGED <<all_results, report, failure, runnerVars>>
    /\ UNCHANGED <<ledgerVars, matchVars>>

\* a main that starts search_and_apply as a task and goes on to the email check
MainStartRun_not_awaited ==
    /\ pc = "start"
    /\ StartRun
    /\ pc' = "email"
    /\ UNCHANGED <<all_results, report, failure, ledgerVars, matchVars>>

\* line 133: linkedin_agent.search_and_apply() is called
MainStartRun ==
    /\ pc = "start"
    /\ StartRun
    /\ pc' = "run"
    /\ UNCHANGED <<all_results, report, failure, ledgerVars, matchVars>>

\* a main that goes from search_and_apply to the email check without the sleep
MainRunReturns_no_sleep ==
    /\ pc = "run"
    /\ rpc = "returned"
    /\ all_results' = Put(all_results, "LinkedIn", results)
    /\ pc' = "email"
    /\ UNCHANGED <<report, failure, ledgerVars, matchVars, runnerVars>>

\* line 133: search_and_apply returned its results
MainRunReturns ==
    /\ pc = "run"
    /\ rpc = "returned"
    /\ all_results' = Put(all_results, "LinkedIn", results)
    /\ pc' = "sleep"
    /\ UNCHANGED <<report, failure, ledgerVars, matchVars, runnerVars>>

\* line 133: an interrupt left search_and_apply
MainRunEscapes ==
    /\ pc = "run"
    /\ rpc = "escaped"
    /\ Caught("run")
    /\ UNCHANGED <<ledgerVars, matchVars, runnerVars>>

\* await asyncio.sleep(30) (line 134)
MainSleep(outcome) ==
    /\ pc = "sleep"
    /\ IF outcome = "ok"
       THEN pc' = "email" /\ UNCHANGED <<all_results, report, failure>>
       ELSE Caught("sleep")
    /\ UNCHANGED <<ledgerVars, matchVars, runnerVars>>

\* the results of EmailChecker.check_emails (email_checker.py, lines 38-71);
\* _search_job_emails returns no email
EmailResults(errors) ==
    [emails_checked |-> 0, updates_found |-> 0, interviews |-> 0, rejections |-> 0,
     errors |-> errors]

\* a check_emails without its except clause, which saves the workbook of the
\* tracker when its DroidAgent runs are over
MainCheckEmails_saves_tracker(outcome) ==
    /\ pc = "email"
    /\ CASE outcome = "ok" ->
              /\ all_results' = Put(all_results, "email", EmailResults(<<>>))
              /\ pc' = "finally"
              /\ disk' = worksheet
              /\ UNCHANGED <<report, failure>>
         [] outcome \in {"raise", "interrupt"} ->
              /\ Caught("email")
              /\ UNCHANGED disk
    /\ surface' = [op |-> "email", outcome |-> outcome]
    /\ UNCHANGED <<workbook, worksheet, now, call, ret, origin, closeCalls, nUpdates>>
    /\ UNCHANGED <<agent, max_applications, applications_count, rpc, jobs, matched_jobs,
                   pos, results, success, submitCalls, runs>>
    /\ UNCHANGED matchVars

\* EmailChecker(...).check_emails() (lines 166-167): it returns, with the error of
\* _open_gmail or _search_job_emails if that raised, or is interrupted. The try
\* statement of check_emails (email_checker.py:46-69) makes no call of the tracker.
MainCheckEmails(outcome) ==
    /\ pc = "email"
    /\ CASE outcome = "ok" ->
              /\ all_results' = Put(all_results, "email", EmailResults(<<>>))
              /\ pc' = "finally"
              /\ UNCHANGED <<report, failure>>
         [] outcome = "raise" ->
              /\ all_results' = Put(all_results, "email", EmailResults(<<Sample.gmail>>))
              /\ pc' = "finally"
              /\ UNCHANGED <<report, failure>>
         [] outcome = "interrupt" -> Caught("email")
    /\ surface' = [op |-> "email", outcome |-> outcome]
    /\ UNCHANGED <<agent, max_applications, applications_count, rpc, jobs, matched_jobs,
                   pos, results, success, submitCalls, runs>>
    /\ UNCHANGED <<ledgerVars, matchVars>>

\* the finally clause, line 177: job_tracker.close()
MainClose(saveOk) ==
    /\ pc = "finally"
    /\ Close(saveOk)
    /\ pc' = "summary"
    /\ UNCHANGED <<all_results, report, failure, matchVars, runnerVars>>

\* the finally clause, lines 180-183: print_summary(all_results); main ends
PrintSummary ==
    /\ pc = "summary"
    /\ report' = <<all_results>>
    /\ pc' = "exited"
    /\ UNCHANGED <<all_results, failure, ledgerVars, matchVars, runnerVars>>

EmailOutcomes == {"ok", "raise", "interrupt"}

InitMain ==
    /\ workbook = "none"
    /\ worksheet = <<>>
    /\ origin = <<>>
    /\ disk \in {NoFile, <<PriorRow>>}
    /\ now = 1
    /\ call = [op |-> "none"]
    /\ ret = FALSE
    /\ closeCalls = 0
    /\ nUpdates = 0
    /\ config \in MainConfigPool
    /\ posting = <<>>
    /\ mres = NotEvaluated
    /\ MailIdle
    /\ RankIdle
    /\ RunnerIdle
    /\ pc = "load_config"
    /\ all_results = <<>>
    /\ report = <<>>
    /\ failure = "none"

\* search_and_apply is running under main
InRun == pc = "run" /\ UNCHANGED mainVars

NextMain ==
    \/ \E readable \in BOOLEAN : LoadConfig(readable)
    \/ \E outcome \in {"ok", "raise"} : InitTools(outcome)
    \/ \E loadOk \in BOOLEAN : InitJobTracker(loadOk)
    \/ InitProfileMatcher
    \/ MainStats
    \/ MainLinkedIn
    \/ MainStartRun
    \/ \E outcome \in OpenOutcomes :
          InRun /\ OpenLinkedInJobs(outcome) /\ UNCHANGED <<ledgerVars, matchVars>>
    \/ \E outcome \in SearchOutcomes, found \in ListsUpTo(MaxJobs) :
          InRun /\ SearchJobs(outcome, found) /\ UNCHANGED <<ledgerVars, matchVars>>
    \/ InRun /\ LoopHead /\ UNCHANGED matchVars
    \/ InRun /\ LoopEnds /\ UNCHANGED <<ledgerVars, matchVars>>
    \/ \E outcome \in ApplyOutcomes, saveOk \in BOOLEAN :
          InRun /\ ApplyToJob(outcome, saveOk) /\ UNCHANGED matchVars
    \/ MainRunReturns
    \/ MainRunEscapes
    \/ \E outcome \in {"ok", "interrupt"} : MainSleep(outcome)
    \/ \E outcome \in EmailOutcomes : MainCheckEmails(outcome)
    \/ \E saveOk \in BOOLEAN : MainClose(saveOk)
    \/ PrintSummary
    \/ Tick /\ UNCHANGED <<matchVars, runnerVars, mainVars>>

SpecMain == InitMain /\ [][NextMain]_vars

-----------------------------------------------------------------------------
(* Properties of the matcher *)

\* some excluded keyword of the configuration occurs, in any letter case, in the
\* title or the description of the posting
HasExcludedKeyword ==
    LET excluded == Get(config.job_preferences, "excluded_keywords", <<>>)
    IN \E i \in 1..Len(excluded) :
          \/ Contains(Lower(excluded[i]), Lower(Get(posting, "job_title", Empty)))
          \/ Contains(Lower(excluded[i]), Lower(Get(posting, "description", Empty)))

\* what the title, keyword, location and entry-level rules add up to for the posting
RulesScore ==
    LET self == ProfileMatcherInit(config)
        job_title == Lower(Get(posting, "job_title", Empty))
        job_description == Lower(Get(posting, "description", Empty))
    IN TitleScore(self, job_title)
       + Min(KeywordMatches(self, job_title, job_description) * 5, 40)
       + LocationScore(self, Lower(Get(posting, "location", Empty)))
       + EntryBonus(job_title, job_description)

\* C8: a posting whose title or description contains an excluded keyword
\* (case-insensitive substring) gets is_match = False and score 0 from match_job,
\* whatever its other fields would have scored.
C8_ExcludedKeywordVetoes ==
    (mres # NotEvaluated /\ HasExcludedKeyword) => (mres.is_match = FALSE /\ mres.score = 0)

\* a posting vetoed for a keyword found only in its description, in another letter
\* case, whose other fields alone reach the threshold
C8_Witness ==
    /\ mres # NotEvaluated
    /\ HasExcludedKeyword
    /\ RulesScore >= 40
    /\ \A i \in 1..Len(config.job_preferences.excluded_keywords) :
          /\ ~Contains(Lower(config.job_preferences.excluded_keywords[i]),
                       Lower(posting.job_title))
          /\ ~Contains(config.job_preferences.excluded_keywords[i], posting.description)

-----------------------------------------------------------------------------
(* Properties of a source's runs *)

\* rows i and j of ws carry the same (company, job_title, platform), letter case aside
SameTriple(ws, i, j) ==
    /\ Lower(ws[i].company) = Lower(ws[j].company)
    /\ Lower(ws[i].job_title) = Lower(ws[j].job_title)
    /\ Lower(ws[i].platform) = Lower(ws[j].platform)

C4_WithinBudget ==
    /\ results.applications_submitted <= max_applications
    /\ submitCalls <= max_applications

\* a run with more matching postings than budget ended after as many submit calls
\* as the budget allows, none of which succeeded
C4_Witness ==
    /\ rpc = "returned"
    /\ max_applications >= 1
    /\ submitCalls = max_applications
    /\ results.applications_submitted = 0
    /\ results.errors # <<>>
    /\ Cardinality({i \in 1..Len(jobs) : "match_score" \in DOMAIN jobs[i]}) > max_applications

-----------------------------------------------------------------------------
(* Properties of the session *)

\* C5: an exception that escapes the LinkedIn block of main (the construction of
\* the runner included) is recorded in the error list of LinkedIn in the report,
\* and the email pass still runs.
C5_SourceFailureIsolated ==
    (pc = "exited" /\ failure = "linkedin") =>
        /\ report # <<>>
        /\ "LinkedIn" \in DOMAIN report[1]
        /\ report[1]["LinkedIn"].errors # <<>>
        /\ "email" \in DOMAIN report[1]

\* C6: on every exit of main after JobTracker was opened, close was called exactly
\* once and the file holds the rows of the worksheet.
C6_ClosedOnEveryExit ==
    (pc = "exited" /\ workbook = "open") => (closeCalls = 1 /\ disk = worksheet)

\* C7: when main has ended, print_summary has run, and what it printed holds the
\* results of the search_and_apply call that returned.
C7_ReportEmitted ==
    pc = "exited" =>
        /\ report # <<>>
        /\ (rpc = "returned" => "LinkedIn" \in DOMAIN report[1]
                                /\ report[1]["LinkedIn"] = results)

-----------------------------------------------------------------------------
(* Properties of the ledger *)

\* the rows add_job_application reported as written in this process run
SessionCommitted == {i \in 1..Len(worksheet) : origin[i] = "committed"}

\* the rows the ledger's callers were told are on record
Committed == {i \in 1..Len(worksheet) : origin[i] \in {"loaded", "committed"}}

\* C2: any two records committed by add_job_application in one session carry
\* different application ids, two records of one second included.
C2_DistinctIds ==
    \A i, j \in SessionCommitted : i # j => worksheet[i].app_id # worksheet[j].app_id

C9_AbsentIdChangesNothing ==
    [][ ( /\ nUpdates' = nUpdates + 1
          /\ \A row \in 1..Len(worksheet) : worksheet[row].app_id # call'.app_id )
        => ( /\ ret' = FALSE
             /\ worksheet' = worksheet
             /\ origin' = origin
             /\ disk' = disk ) ]_vars

\* an update with an absent id was made on a ledger holding records
C9_Witness ==
    /\ call.op = "update" /\ ret = FALSE
    /\ Len(worksheet) >= 1
    /\ \A row \in 1..Len(worksheet) : worksheet[row].app_id # call.app_id

\* C10: get_application_stats returns total = number of committed records, the
\* four classes sum to total, and each committed record is counted in the one
\* class its status selects (applied, interview/shortlist, reject, else pending).
C10_StatsCountCommitted ==
    call.op = "stats" =>
        /\ ret.total = Cardinality(Committed)
        /\ ret.applied + ret.interview + ret.rejected + ret.pending = ret.total
        /\ \A cls \in {"applied", "interview", "rejected", "pending"} :
              ret[cls] = Cardinality({i \in Committed : StatusClass(worksheet[i].status) = cls})

\* C11: when add_job_application or update_job_status has reported failure, the
\* rows that later check_already_applied, get_application_stats and
\* update_job_status calls read, and that a later save writes, are the rows
\* committed before the call: the worksheet holds what the file holds.
C11_FailedPersistLeavesNoTrace ==
    (call.op \in {"add", "update"} /\ ret = FALSE) => worksheet = disk

\* C12: when the first search_and_apply of a session has returned,
\* applications_submitted equals the number of rows the run committed to the
\* ledger: a job whose add_job_application failed is not counted as submitted.
C12_SubmittedEqualsCommitted ==
    (runs = 1 /\ rpc = "returned") =>
        results.applications_submitted = Cardinality(SessionCommitted)

\* the ranked job at position q of the run
RankedJob(q) == jobs[matched_jobs[q]]

\* C13: a submit that returns a failure flag, no structured confirmation or an
\* exception appends one entry to errors, leaves applications_submitted and the
\* ledger as they were and moves to the next ranked job; and _apply_to_job is
\* never called for a posting it has already failed for.
C13_FailedSubmitOnceOnly ==
    /\ [][ (rpc = "apply" /\ rpc' = "loop" /\ success' = "False") =>
              /\ Len(results'.errors) = Len(results.errors) + 1
              /\ results'.applications_submitted = results.applications_submitted
              /\ worksheet' = worksheet
              /\ disk' = disk
              /\ pos' = pos + 1 ]_vars
    /\ [](rpc = "apply" =>
            \A q \in 1..(pos - 1) :
                ~ /\ RankedJob(q).company = Job.company
                  /\ RankedJob(q).job_title = Job.job_title)

-----------------------------------------------------------------------------
(* Properties of the ranking *)

\* the list is in non-increasing order of the score match_job gives, and match_job
\* accepts every job of it
SortedMatches(list) ==
    /\ \A p \in 1..Len(list) : match_job(ProfileMatcherInit(config), list[p]).is_match
    /\ \A p, q \in 1..Len(list) :
          p < q => match_job(ProfileMatcherInit(config), list[p]).score
                   >= match_job(ProfileMatcherInit(config), list[q]).score

\* C14 as stated: for every list, profile and limit, what filter_and_rank returns is
\* sorted by non-increasing score and holds only matches, and filter_and_rank
\* applied to it with the same limit returns it unchanged.
C14_RankIdempotentAnyLimit ==
    /\ ranking.calls >= 1 => SortedMatches(ranking.first)
    /\ ranking.calls = 2 => ranking.second = ranking.first

\* C14, amended: the same for a limit that is None or not negative.
C14_RankSortedIdempotent ==
    /\ ranking.calls >= 1 => SortedMatches(ranking.first)
    /\ (ranking.calls = 2 /\ (ranking.limit = <<>> \/ ranking.limit[1] >= 0))
          => ranking.second = ranking.first

\* two matching jobs listed in increasing order of score were ranked with limit 1,
\* and the one job returned was ranked again
C14_Witness ==
    /\ ranking.calls = 2
    /\ ranking.limit = <<1>>
    /\ Len(ranking.job_list) = 2
    /\ match_job(ProfileMatcherInit(config), ranking.job_list[1]).is_match
    /\ match_job(ProfileMatcherInit(config), ranking.job_list[2]).is_match
    /\ match_job(ProfileMatcherInit(config), ranking.job_list[1]).score
         < match_job(ProfileMatcherInit(config), ranking.job_list[2]).score
    /\ Len(ranking.first) = 1
    /\ ranking.first[1].company = ranking.job_list[2].company

-----------------------------------------------------------------------------
(* Properties of the classifier *)

\* C15: the class returned is the first of interview, rejection, offer whose keyword
\* list has a keyword inside the lower-cased subject and body, and none when no list
\* has one: a message with an interview and a rejection keyword is an interview, one
\* with a rejection and an offer keyword (and no interview keyword) a rejection.
C15_FirstClassInPriorityOrder ==
    LET text == Lower(IF "subject" \in DOMAIN email THEN email.subject ELSE <<>>)
                   \o <<" ">> \o Lower(IF "body" \in DOMAIN email THEN email.body ELSE <<>>)
        hit(class) == \E k \in 1..Len(EmailKeywords[class]) :
                          Contains(EmailKeywords[class][k], text)
    IN update_type # "unset" =>
          /\ hit("interview") => update_type = "interview"
          /\ (~hit("interview") /\ hit("rejection")) => update_type = "rejection"
          /\ (~hit("interview") /\ ~hit("rejection") /\ hit("offer")) => update_type = "offer"
          /\ (~hit("interview") /\ ~hit("rejection") /\ ~hit("offer")) => update_type = "None"

\* a message that says both "unfortunately" and "meet" was classified an interview
C15_Witness ==
    /\ update_type = "interview"
    /\ "subject" \in DOMAIN email
    /\ Contains(<<"u","n","f","o","r","t","u","n","a","t","e","l","y">>, Lower(email.subject))
    /\ Contains(<<"m","e","e","t">>, Lower(email.subject))

-----------------------------------------------------------------------------
(* Properties of the score *)

\* the sum the four scoring rules give for the posting under the configuration; a
\* word of a phrase is a stretch without a space, with a space or an end of the
\* phrase on either side
ExpectedScore ==
    LET IsWordOf(a, b, phrase) ==
            /\ \A i \in a..b : phrase[i] # " "
            /\ (a = 1 \/ phrase[a - 1] = " ")
            /\ (b = Len(phrase) \/ phrase[b + 1] = " ")
        prefs == config.job_preferences
        titles == Get(prefs, "job_titles", <<>>)
        keywords == Get(prefs, "keywords", <<>>)
        locations == Get(prefs, "locations", <<>>)
        title == Lower(Get(posting, "job_title", Empty))
        text == Lower(Get(posting, "description", Empty))
        place == Lower(Get(posting, "location", Empty))
        exact == \E i \in 1..Len(titles) : Contains(Lower(titles[i]), title)
        partial == \E i \in 1..Len(titles) : \E a, b \in 1..Len(titles[i]) :
                      /\ b - a + 1 > 3
                      /\ IsWordOf(a, b, Lower(titles[i]))
                      /\ Contains(SubSeq(Lower(titles[i]), a, b), title)
        hits == Cardinality({k \in 1..Len(keywords) :
                                \/ Contains(Lower(keywords[k]), title)
                                \/ Contains(Lower(keywords[k]), text)})
        entry == \E kw \in EntryKeywords : Contains(kw, title) \/ Contains(kw, text)
    IN (IF exact THEN 30 ELSE IF partial THEN 15 ELSE 0)
       + (IF 5 * hits < 40 THEN 5 * hits ELSE 40)
       + (IF \E i \in 1..Len(locations) : Contains(Lower(locations[i]), place)
          THEN 20 ELSE 0)
       + (IF entry THEN 10 ELSE 0)

\* the second example: the profile and the posting
IsSecondExample ==
    /\ config.job_preferences =
          [job_titles |-> <<Sample.SoftwareDeveloperIntern>>,
           keywords |-> <<Sample.python, Sample.react>>,
           excluded_keywords |-> <<Sample.Senior>>, locations |-> <<Sample.Remote>>,
           experience_range |-> [min_years |-> 0, max_years |-> 1]]
    /\ posting = [job_title |-> Sample.SoftwareDeveloperIntern, company |-> Sample.Ab,
                  location |-> Sample.Remote, description |-> Sample.PythonReact,
                  experience |-> Sample.Fresher]

\* C16: for a posting that passes the veto and the experience check, the score is
\* the title score (30 for a preferred title inside the title, else 15 for a word
\* longer than 3 of a preferred title inside it, else 0) plus min(5 x keyword hits,
\* 40) plus 20 for a preferred location plus 10 for an entry-level word, and
\* is_match holds exactly when the score is at least 40; the second example scores
\* 70 and matches.
C16_ScoreIsSumOfRules ==
    (/\ mres # NotEvaluated
     /\ ~HasExcludedKeyword
     /\ match_experience(ProfileMatcherInit(config), Get(posting, "experience", Empty)))
    => /\ mres.score = ExpectedScore
       /\ mres.is_match = (mres.score >= 40)
       /\ IsSecondExample => (mres.score = 70 /\ mres.is_match)

\* the second example was evaluated and scored 70
C16_Witness ==
    /\ mres # NotEvaluated
    /\ IsSecondExample
    /\ mres.score = 70

-----------------------------------------------------------------------------
(* Properties of close *)

\* C17: a close that follows a close leaves the records in the file as the first
\* close left them (close never raises: it has no outcome but a return).
C17_CloseIdempotent ==
    [][(call.op = "close" /\ call'.op = "close" /\ closeCalls' = closeCalls + 1)
          => disk' = disk]_vars

-----------------------------------------------------------------------------
(* Properties of the loop over the ranked jobs *)

\* C18: once the tracker is open, the worksheet and the file change only in the step
\* in which _apply_to_job, called for the job in hand, returned True: one row is
\* appended, for that job, with status "Applied". Discovery, ranking, skipped
\* duplicates and failed submits change neither.
C18_RecordOnlyAfterConfirmedSubmit ==
    [][(workbook = "open" /\ (worksheet' # worksheet \/ disk' # disk)) =>
          /\ rpc = "apply"
          /\ success' = "True"
          /\ Len(worksheet') = Len(worksheet) + 1
          /\ SubSeq(worksheet', 1, Len(worksheet)) = worksheet
          /\ worksheet'[Len(worksheet')].status = TrackerText.Applied
          /\ worksheet'[Len(worksheet')].company = jobs[matched_jobs[pos]].company
          /\ worksheet'[Len(worksheet')].job_title = jobs[matched_jobs[pos]].job_title
          /\ worksheet'[Len(worksheet')].platform = S_LinkedIn]_vars

\* a confirmed submit has just been recorded: the last row is the one of the job
\* the loop has moved past
C18_Witness ==
    /\ rpc = "loop"
    /\ success = "True"
    /\ call.op = "add"
    /\ pos > 1
    /\ worksheet # <<>>
    /\ worksheet[Len(worksheet)].status = TrackerText.Applied
    /\ worksheet[Len(worksheet)].job_title = RankedJob(pos - 1).job_title
    /\ results.applications_submitted >= 1

\* C19: when check_already_applied holds for the ranked job in hand (and the budget
\* is not used up), the step the run takes calls no _apply_to_job, leaves
\* applications_submitted, errors, the worksheet and the file as they are, and
\* moves to the next ranked job.
C19_DuplicateIsSkipped ==
    [][(/\ rpc = "loop"
        /\ pos <= Len(matched_jobs)
        /\ applications_count < max_applications
        /\ check_already_applied(worksheet, jobs[matched_jobs[pos]].company,
                                 jobs[matched_jobs[pos]].job_title, S_LinkedIn)
        /\ runnerVars' # runnerVars) =>
          /\ submitCalls' = submitCalls
          /\ results' = results
          /\ worksheet' = worksheet
          /\ disk' = disk
          /\ pos' = pos + 1
          /\ rpc' = "loop"]_vars

\* the dedup check has just held for a ranked job, and the loop has moved past it
\* without a call of _apply_to_job in this run
C19_Witness ==
    /\ rpc = "loop"
    /\ call.op = "check"
    /\ ret = TRUE
    /\ pos > 1
    /\ submitCalls = 0
    /\ check_already_applied(worksheet, RankedJob(pos - 1).company,
                             RankedJob(pos - 1).job_title, S_LinkedIn)

\* C20: when the processing of the ranked job in hand fails (_apply_to_job fails,
\* or the write of its row to the tracker fails), the step appends one entry to
\* errors, and the run goes on with the next ranked job instead of ending.
C20_PostingErrorIsReported ==
    [][(/\ rpc = "apply"
        /\ \/ success' = "False"
           \/ /\ Len(origin') = Len(origin) + 1
              /\ origin'[Len(origin')] = "failed") =>
          /\ Len(results'.errors) = Len(results.errors) + 1
          /\ rpc' = "loop"
          /\ pos' = pos + 1]_vars

-----------------------------------------------------------------------------
(* Properties of the DroidAgent runs awaited in search_and_apply *)

\* C21: a _search_jobs or _apply_to_job whose DroidAgent run fails explicitly (a
\* result with success false, or an exception) leaves results, the worksheet and the
\* file as the same call does when the run gives no structured output: for
\* _search_jobs no job found or matched and no new error, for _apply_to_job one
\* "Failed to apply" entry in errors, and the tracker untouched in both.
C21_NoResultIsFailure ==
    [][/\ (rpc = "search" /\ surface'.op = "search"
              /\ surface'.outcome \in {"failed", "no_result", "raise"}) =>
             /\ results' = [results EXCEPT !.jobs_found = 0, !.jobs_matched = 0]
             /\ worksheet' = worksheet
             /\ disk' = disk
       /\ (rpc = "apply" /\ surface'.op = "apply" /\ rpc' # rpc
              /\ surface'.outcome \in {"not_confirmed", "no_result", "raise"}) =>
             /\ results' = [results EXCEPT !.errors =
                              Append(@, S_FailedToApply \o jobs[matched_jobs[pos]].job_title)]
             /\ worksheet' = worksheet
             /\ disk' = disk]_vars

-----------------------------------------------------------------------------
(* Properties of the order of the stages of main *)

\* C22: when search_and_apply has ended, the sleep of line 134 is what follows (or,
\* when an interrupt left it, the finally clause); the email check starts only from
\* the end of that sleep, or without any run when the platform is disabled; and the
\* sleep is followed by the email check (or, interrupted, by the finally clause),
\* never by a second sleep.
C22_CooldownBeforeEmail ==
    [][/\ (pc = "run" /\ pc' # "run") =>
             \/ pc' = "sleep" /\ rpc = "returned"
             \/ pc' = "finally" /\ rpc = "escaped"
       /\ (pc' = "email" /\ pc # "email") =>
             \/ pc = "sleep"
             \/ pc = "linkedin" /\ runs = 0
       /\ (pc = "sleep" /\ pc' # "sleep") => pc' \in {"email", "finally"}]_vars

\* the run returned, the sleep elapsed and the email check was made
C22_Witness ==
    /\ pc = "finally"
    /\ failure = "none"
    /\ runs = 1
    /\ "LinkedIn" \in DOMAIN all_results
    /\ "email" \in DOMAIN all_results

\* C23: a DroidAgent run of search_and_apply (opening the app, the search, an
\* application) is awaited only while main stands in the run, so never while the
\* email check is at hand, and search_and_apply is called only when no earlier call
\* of it is still running.
C23_OneInvocationInFlight ==
    /\ [](rpc \in {"open", "search", "loop", "apply"} => pc = "run")
    /\ [][runs' = runs + 1 => rpc \in {"idle", "returned"}]_vars

\* the email check is at hand after a run that made an application and returned
C23_Witness ==
    /\ pc = "email"
    /\ rpc = "returned"
    /\ submitCalls >= 1
    /\ surface.op = "apply"

-----------------------------------------------------------------------------
(* More properties of the ranking *)

\* C24: the jobs of one score stand in the list filter_and_rank returns in the order
\* they have in the list given: the returned jobs of a score are, without the two
\* keys the ranking adds, the first of the matching jobs of that score given.
C24_TiesKeepInputOrder ==
    LET self == ProfileMatcherInit(config)
        Plain(list) == [p \in 1..Len(list) |->
                           [k \in DOMAIN list[p] \ {"match_score", "match_reason"} |->
                               list[p][k]]]
        OfScore(list, s) ==
            SelectSeq(list, LAMBDA d : /\ match_job(self, d).is_match
                                       /\ match_job(self, d).score = s)
        returned(s) == Plain(OfScore(ranking.first, s))
        given(s) == Plain(OfScore(ranking.job_list, s))
    IN ranking.calls >= 1 =>
          \A p \in 1..Len(ranking.job_list) :
              LET s == match_job(self, ranking.job_list[p]).score
              IN /\ Len(returned(s)) <= Len(given(s))
                 /\ returned(s) = SubSeq(given(s), 1, Len(returned(s)))

\* two different jobs of one score were ranked, and both were returned
C24_Witness ==
    /\ ranking.calls >= 1
    /\ Len(ranking.first) = 2
    /\ ranking.first[1].match_score = ranking.first[2].match_score
    /\ ranking.first[1].company # ranking.first[2].company
    /\ ranking.first[1].company = ranking.job_list[1].company

\* C25: for a limit of 0 or more, filter_and_rank returns at most limit jobs, and
\* they are the first limit jobs of the list rank_jobs gives.
C25_AtMostLimit ==
    (ranking.calls >= 1 /\ ranking.limit # <<>> /\ ranking.limit[1] >= 0) =>
        /\ Len(ranking.first) <= ranking.limit[1]
        /\ \A p \in 1..Len(ranking.first) :
              ranking.first[p] =
                 RankedList(rank_jobs(ProfileMatcherInit(config), ranking.job_list))[p]

\* C26: after filter_and_rank the list given holds the jobs it held before the call,
\* in the same order, each with the keys and values it had.
C26_InputUnchanged ==
    ranking.calls >= 1 => ranking.after = ranking.job_list

-----------------------------------------------------------------------------
(* Properties of the experience test *)

\* C27: a posting without an excluded keyword whose experience text holds at least
\* one range of years, none of which overlaps the range of the profile, gets
\* is_match = False and score 0 from match_job.
C27_NoOverlapRejects ==
    LET self == ProfileMatcherInit(config)
        ranges == FindAllYears(Lower(Get(posting, "experience", Empty)), 1)
    IN (/\ mres # NotEvaluated
        /\ ~HasExcludedKeyword
        /\ ranges # <<>>
        /\ \A i \in 1..Len(ranges) :
              LET min_years == ToInt(ranges[i].first)
                  max_years == IF ranges[i].second # <<>> THEN ToInt(ranges[i].second)
                               ELSE min_years
              IN ~(min_years <= self.max_experience /\ max_years >= self.min_experience))
       => (mres.is_match = FALSE /\ mres.score = 0)

-----------------------------------------------------------------------------
(* Properties of the keyword score *)

\* C28: the keyword part of the score is min(5 x d, 40), d being the number of
\* different keywords of the profile, letter case apart, found in the title or the
\* description: for a posting that passes the veto and the experience test the
\* score is that plus the title score, the location score and the entry bonus.
C28_DistinctKeywordsCounted ==
    LET self == ProfileMatcherInit(config)
        job_title == Lower(Get(posting, "job_title", Empty))
        job_description == Lower(Get(posting, "description", Empty))
        keywords == Get(config.job_preferences, "keywords", <<>>)
        d == Cardinality({Lower(keywords[k]) : k \in
                             {k \in 1..Len(keywords) :
                                 \/ Contains(Lower(keywords[k]), job_title)
                                 \/ Contains(Lower(keywords[k]), job_description)}})
    IN (/\ mres # NotEvaluated
        /\ ~HasExcludedKeyword
        /\ match_experience(self, Get(posting, "experience", Empty)))
       => mres.score = TitleScore(self, job_title)
                       + (IF 5 * d < 40 THEN 5 * d ELSE 40)
                       + LocationScore(self, Lower(Get(posting, "location", Empty)))
                       + EntryBonus(job_title, job_description)

-----------------------------------------------------------------------------
(* Properties of update_job_status *)

\* the step is an update_job_status for an id some row carries
UpdatesExistingId ==
    /\ call'.op = "update"
    /\ nUpdates' = nUpdates + 1
    /\ \E r \in 1..Len(worksheet) : worksheet[r].app_id = call'.app_id

\* in the step only the status, the last-updated time and the notes of the first row
\* with the id change: the status becomes the one given, and a note given stands at
\* the end of the new notes, behind the old notes
OnlyStatusAndNotesChange ==
    LET row == CHOOSE r \in 1..Len(worksheet) :
                  /\ worksheet[r].app_id = call'.app_id
                  /\ \A q \in 1..(r - 1) : worksheet[q].app_id # call'.app_id
        old == worksheet[row].notes
        new == worksheet'[row].notes
        note == call'.notes
    IN /\ Len(worksheet') = Len(worksheet)
       /\ \A r \in 1..Len(worksheet) : r # row => worksheet'[r] = worksheet[r]
       /\ \A f \in DOMAIN worksheet[row] \ {"status", "last_updated", "notes"} :
              worksheet'[row][f] = worksheet[row][f]
       /\ worksheet'[row].status = call'.new_status
       /\ IF note = <<>> THEN new = old
          ELSE /\ Len(new) >= Len(old) + Len(note)
               /\ SubSeq(new, 1, Len(old)) = old
               /\ SubSeq(new, Len(new) - Len(note) + 1, Len(new)) = note

C31_CountersOrdered ==
    LET n == Len(S_FailedToApply)
        failed == {i \in 1..Len(results.errors) :
                      /\ Len(results.errors[i]) >= n
                      /\ SubSeq(results.errors[i], 1, n) = S_FailedToApply}
    IN /\ results.applications_submitted <= results.jobs_matched
       /\ results.jobs_matched <= results.jobs_found
       /\ results.applications_submitted + Cardinality(failed) <= results.jobs_matched

\* a run returned after one submission and one failed submission of the two
\* listings it matched
C31_Witness ==
    /\ rpc = "returned"
    /\ results.applications_submitted = 1
    /\ Len(results.errors) = 1
    /\ success = "False"
    /\ results.jobs_matched = 2
    /\ results.jobs_found = 2

-----------------------------------------------------------------------------
(* Properties of the email check *)

====
